---------------------------- MODULE Spec2Model ----------------------------
(***************************************************************************)
(* Model of src/lib.rs: lev_distance (single working row, Unicode scalar   *)
(* values) and find_best_match_for_name (three tiers built on it).         *)
(*                                                                         *)
(* A string is a sequence of Unicode scalar values (code points, as        *)
(* naturals).  Its byte length (str::len) is the sum of the UTF-8 widths   *)
(* of its scalar values; chars() iterates the sequence itself.             *)
(***************************************************************************)
EXTENDS Naturals, Sequences, FiniteSets

VARIABLES
    \* lev_distance(a, b)
    a, b, dcol, t_last, i, j, current, pc, ret,
    \* find_best_match_for_name(iter_names, lookup, dist)
    names, lookup, dist, max_dist, k, levenshtein_match, result, fpc, best

levVars == <<a, b, dcol, t_last, i, j, current, pc, ret>>
findVars == <<names, lookup, dist, max_dist, k, levenshtein_match, result, fpc, best>>
vars == <<levVars, findVars>>

-----------------------------------------------------------------------------
(* Bounds of the model *)

\* lev_distance: the longest argument
MaxLen == 3

\* find_best_match_for_name: the longest name, the number of candidates, the
\* largest supplied threshold
MaxNameLen == 2
MaxNames == 2
MaxDist == 2

\* the same for the wide specification, whose names hold several words
WideNameLen == 3
WideNames == 2
WideDist == 2

\* 'a' (1 byte), U+00E4 (2 bytes), U+20AC (3 bytes), U+1F600 (4 bytes)
LevChars == {97, 228, 8364, 128512}

\* '_' (the word separator) and U+00E4 (2 bytes)
WordChars == {95, 228}

\* U+00C4 and U+00E4: a case pair, 2 bytes each
CaseChars == {196, 228}

FindChars == WordChars \cup CaseChars

StringsUpTo(chars, n) == UNION {[1..m -> chars] : m \in 0..n}

-----------------------------------------------------------------------------
(* Strings, Option *)

None == <<>>
Some(x) == <<x>>

Min(x, y) == IF x < y THEN x ELSE y
Max(x, y) == IF x > y THEN x ELSE y

\* the UTF-8 encoded width of one scalar value
Utf8Len(c) == IF c < 128 THEN 1 ELSE IF c < 2048 THEN 2 ELSE IF c < 65536 THEN 3 ELSE 4

RECURSIVE ByteLen(_)
\* str::len(): the length in bytes
ByteLen(s) == IF s = <<>> THEN 0 ELSE Utf8Len(Head(s)) + ByteLen(Tail(s))

\* s.chars().count(): the number of scalar values
CharsCount(s) == Len(s)

\* char::to_uppercase on ASCII and Latin-1: U+00DF expands to "SS", U+00B5 and
\* U+00FF leave Latin-1
UpperChar(c) ==
    IF c >= 97 /\ c <= 122 THEN <<c - 32>>
    ELSE IF c = 181 THEN <<924>>
    ELSE IF c = 223 THEN <<83, 83>>
    ELSE IF c >= 224 /\ c <= 254 /\ c # 247 THEN <<c - 32>>
    ELSE IF c = 255 THEN <<376>>
    ELSE <<c>>

RECURSIVE to_uppercase(_)
\* str::to_uppercase(): the uppercase forms of the characters, concatenated
to_uppercase(s) == IF s = <<>> THEN <<>> ELSE UpperChar(Head(s)) \o to_uppercase(Tail(s))

-----------------------------------------------------------------------------
(* lev_distance *)

\* faulty variant: (0..b.len()), a row one cell short
InitRowOffByOne(s) == [n \in 0..(ByteLen(s) - 1) |-> n]
\* let mut dcol: Vec<_> = (0..=b.len()).collect();
InitRow(s) == [n \in 0..ByteLen(s) |-> n]

\* faulty variants of the inner body: without the insertion neighbour dcol[j],
\* without the deletion neighbour next, and charging equal characters
InnerBodyNoInsert(row, cur, sc, tc, jj) ==
    LET next == row[jj + 1] IN
    [dcol |-> IF sc = tc
              THEN [row EXCEPT ![jj + 1] = cur]
              ELSE [row EXCEPT ![jj + 1] = Min(cur, next) + 1],
     current |-> next]
InnerBodyNoDelete(row, cur, sc, tc, jj) ==
    LET next == row[jj + 1] IN
    [dcol |-> IF sc = tc
              THEN [row EXCEPT ![jj + 1] = cur]
              ELSE [row EXCEPT ![jj + 1] = Min(cur, row[jj]) + 1],
     current |-> next]
InnerBodyEqCost(row, cur, sc, tc, jj) ==
    LET next == row[jj + 1] IN
    [dcol |-> [row EXCEPT ![jj + 1] = Min(Min(cur, next), row[jj]) + 1],
     current |-> next]
\* the body of the inner loop (lines 53-60): the row and `current` after it
InnerBody(row, cur, sc, tc, jj) ==
    LET next == row[jj + 1] IN
    [dcol |-> IF sc = tc
              THEN [row EXCEPT ![jj + 1] = cur]
              ELSE [row EXCEPT ![jj + 1] = Min(Min(cur, next), row[jj]) + 1],
     current |-> next]

\* the row indices the inner body touches: next = dcol[j + 1] always, dcol[j]
\* only when the characters differ
InnerAccesses(sc, tc, jj) == IF sc = tc THEN {jj + 1} ELSE {jj, jj + 1}

\* faulty variant: the early returns in bytes
EarlyReturnBytes(s) == ByteLen(s)
\* the early returns of lines 39-43
EarlyReturn(s) == CharsCount(s)

\* faulty variant: the last cell of the row, dcol[b.len()]
ReturnIndexBytes(s, tl) == ByteLen(s)
\* the index read at the return (line 64)
ReturnIndex(s, tl) == tl + 1

LevEntry ==
    /\ pc = "entry"
    /\ IF a = <<>>
       THEN /\ ret' = EarlyReturn(b)
            /\ pc' = "done"
            /\ UNCHANGED <<dcol, t_last, i>>
       ELSE IF b = <<>>
       THEN /\ ret' = EarlyReturn(a)
            /\ pc' = "done"
            /\ UNCHANGED <<dcol, t_last, i>>
       ELSE /\ dcol' = InitRow(b)
            /\ t_last' = 0
            /\ i' = 0
            /\ pc' = "outer"
            /\ UNCHANGED ret
    /\ UNCHANGED <<a, b, j, current>>
    /\ UNCHANGED findVars

\* one turn of `for (i, sc) in a.chars().enumerate()` up to the inner loop
OuterStep ==
    /\ pc = "outer"
    /\ IF i < Len(a)
       THEN IF 0 \in DOMAIN dcol
            THEN /\ current' = i
                 /\ dcol' = [dcol EXCEPT ![0] = i + 1]
                 /\ j' = 0
                 /\ pc' = "inner"
            ELSE /\ pc' = "panic"
                 /\ UNCHANGED <<current, dcol, j>>
       ELSE /\ pc' = "return"
            /\ UNCHANGED <<current, dcol, j>>
    /\ UNCHANGED <<a, b, t_last, i, ret>>
    /\ UNCHANGED findVars

\* one turn of `for (j, tc) in b.chars().enumerate()`
InnerStep ==
    /\ pc = "inner"
    /\ IF j < Len(b)
       THEN IF InnerAccesses(a[i + 1], b[j + 1], j) \subseteq DOMAIN dcol
            THEN LET r == InnerBody(dcol, current, a[i + 1], b[j + 1], j) IN
                 /\ dcol' = r.dcol
                 /\ current' = r.current
                 /\ t_last' = j
                 /\ j' = j + 1
                 /\ UNCHANGED <<i, pc>>
            ELSE /\ pc' = "panic"
                 /\ UNCHANGED <<dcol, current, t_last, j, i>>
       ELSE /\ i' = i + 1
            /\ pc' = "outer"
            /\ UNCHANGED <<dcol, current, t_last, j>>
    /\ UNCHANGED <<a, b, ret>>
    /\ UNCHANGED findVars

LevReturn ==
    /\ pc = "return"
    /\ IF ReturnIndex(b, t_last) \in DOMAIN dcol
       THEN /\ ret' = dcol[ReturnIndex(b, t_last)]
            /\ pc' = "done"
       ELSE /\ pc' = "panic"
            /\ UNCHANGED ret
    /\ UNCHANGED <<a, b, dcol, t_last, i, j, current>>
    /\ UNCHANGED findVars

RECURSIVE InnerLoop(_, _, _, _, _)
\* the inner loop run to its end from column jj
InnerLoop(row, cur, sc, t, jj) ==
    IF jj >= Len(t) THEN row
    ELSE LET r == InnerBody(row, cur, sc, t[jj + 1], jj) IN
         InnerLoop(r.dcol, r.current, sc, t, jj + 1)

RECURSIVE OuterLoop(_, _, _, _)
\* the outer loop run to its end from row ii
OuterLoop(row, s, t, ii) ==
    IF ii >= Len(s) THEN row
    ELSE OuterLoop(InnerLoop([row EXCEPT ![0] = ii + 1], ii, s[ii + 1], t, 0), s, t, ii + 1)

\* lev_distance as a function of its arguments, as find_best_match_for_name calls it
lev_distance(s, t) ==
    IF s = <<>> THEN EarlyReturn(t)
    ELSE IF t = <<>> THEN EarlyReturn(s)
    ELSE OuterLoop(InitRow(t), s, t, 0)[ReturnIndex(t, Len(t) - 1)]

-----------------------------------------------------------------------------
(* sort_by_words *)

RECURSIVE SplitFrom(_, _)
\* name.split('_'): the fragments between separators; cur is the fragment being
\* read.  An empty string gives one empty fragment.
SplitFrom(s, cur) ==
    IF s = <<>> THEN <<cur>>
    ELSE IF Head(s) = 95 THEN <<cur>> \o SplitFrom(Tail(s), <<>>)
    ELSE SplitFrom(Tail(s), Append(cur, Head(s)))

split(s) == SplitFrom(s, <<>>)

RECURSIVE StrLess(_, _)
\* the order of &str: lexicographic on the bytes, which for UTF-8 is
\* lexicographic on the scalar values; a proper prefix comes first
StrLess(s, t) ==
    IF t = <<>> THEN FALSE
    ELSE IF s = <<>> THEN TRUE
    ELSE IF Head(s) # Head(t) THEN Head(s) < Head(t)
    ELSE StrLess(Tail(s), Tail(t))

RECURSIVE InsertSorted(_, _)
InsertSorted(w, ws) ==
    IF ws = <<>> THEN <<w>>
    ELSE IF StrLess(Head(ws), w) THEN <<Head(ws)>> \o InsertSorted(w, Tail(ws))
    ELSE <<w>> \o ws

RECURSIVE sort_unstable(_)
\* split_words.sort_unstable(): equal fragments are indistinguishable, so any
\* sort gives the same sequence
sort_unstable(ws) == IF ws = <<>> THEN <<>> ELSE InsertSorted(Head(ws), sort_unstable(Tail(ws)))

RECURSIVE join(_)
\* split_words.join("_")
join(ws) ==
    IF ws = <<>> THEN <<>>
    ELSE IF Len(ws) = 1 THEN Head(ws)
    ELSE Head(ws) \o <<95>> \o join(Tail(ws))

sort_by_words(name) == join(sort_unstable(split(name)))

-----------------------------------------------------------------------------
(* find_best_match_for_name *)

\* dist.unwrap_or_else(|| cmp::max(lookup.len(), 3) / 3)
DefaultMaxDist(s) == Max(ByteLen(s), 3) \div 3

\* faulty variant: a comparison that keeps case
CaseSensitiveMatch(candidate, s) == candidate = s
\* the comparison of tier 1 (line 92)
CaseInsensitiveMatch(candidate, s) == to_uppercase(candidate) = to_uppercase(s)

\* faulty variant: `dist <= d`, the last of the closest candidates wins
FoldLastMin(acc, candidate, d) ==
    IF acc = None THEN Some(<<candidate, d>>)
    ELSE IF d <= acc[1][2] THEN Some(<<candidate, d>>) ELSE acc
\* the fold of tier 2 (lines 110-113) on one element that passed the filter
FoldMin(acc, candidate, d) ==
    IF acc = None THEN Some(<<candidate, d>>)
    ELSE IF d < acc[1][2] THEN Some(<<candidate, d>>) ELSE acc

\* the filter_map of tier 2 (lines 100-107) followed by the fold, on one element
FilterFold(acc, candidate, s, limit) ==
    LET d == lev_distance(s, candidate) IN
    IF d <= limit THEN FoldMin(acc, candidate, d) ELSE acc

\* the fold of find_match_by_sorted_words (lines 130-136) on one element
SortedWordsFold(acc, candidate, s) ==
    IF sort_by_words(candidate) = sort_by_words(s) THEN Some(candidate) ELSE acc

FindEntry ==
    /\ fpc = "entry"
    /\ max_dist' = IF dist = None THEN DefaultMaxDist(lookup) ELSE dist[1]
    /\ k' = 1
    /\ fpc' = "tier1"
    /\ UNCHANGED <<names, lookup, dist, levenshtein_match, result, best>>
    /\ UNCHANGED levVars

\* 1. Exact case insensitive match: one turn of the loop of lines 91-95
Tier1Step ==
    /\ fpc = "tier1"
    /\ IF k <= Len(names)
       THEN IF CaseInsensitiveMatch(names[k], lookup)
            THEN /\ best' = Some(names[k])
                 /\ fpc' = "done"
                 /\ UNCHANGED <<k, levenshtein_match>>
            ELSE /\ k' = k + 1
                 /\ UNCHANGED <<best, fpc, levenshtein_match>>
       ELSE /\ fpc' = "tier2"
            /\ k' = 1
            /\ levenshtein_match' = None
            /\ UNCHANGED best
    /\ UNCHANGED <<names, lookup, dist, max_dist, result>>
    /\ UNCHANGED levVars

\* 2. Levenshtein distance match: one element through filter_map and fold, and
\* at the end of the iterator the choice of lines 116-120
Tier2Step ==
    /\ fpc = "tier2"
    /\ IF k <= Len(names)
       THEN /\ levenshtein_match' = FilterFold(levenshtein_match, names[k], lookup, max_dist)
            /\ k' = k + 1
            /\ UNCHANGED <<best, fpc, result>>
       ELSE IF levenshtein_match # None
       THEN /\ best' = Some(levenshtein_match[1][1])
            /\ fpc' = "done"
            /\ UNCHANGED <<k, levenshtein_match, result>>
       ELSE /\ fpc' = "tier3"
            /\ k' = 1
            /\ result' = None
            /\ UNCHANGED <<best, levenshtein_match>>
    /\ UNCHANGED <<names, lookup, dist, max_dist>>
    /\ UNCHANGED levVars

\* 3. Sorted word match: one element through the fold of find_match_by_sorted_words
Tier3Step ==
    /\ fpc = "tier3"
    /\ IF k <= Len(names)
       THEN /\ result' = SortedWordsFold(result, names[k], lookup)
            /\ k' = k + 1
            /\ UNCHANGED <<best, fpc>>
       ELSE /\ best' = result
            /\ fpc' = "done"
            /\ UNCHANGED <<k, result>>
    /\ UNCHANGED <<names, lookup, dist, max_dist, levenshtein_match>>
    /\ UNCHANGED levVars

-----------------------------------------------------------------------------
(* Specifications *)

LevIdle ==
    /\ a = <<>> /\ b = <<>> /\ dcol = <<>> /\ t_last = 0 /\ i = 0 /\ j = 0
    /\ current = 0 /\ pc = "idle" /\ ret = 0

FindIdle ==
    /\ names = <<>> /\ lookup = <<>> /\ dist = None /\ max_dist = 0 /\ k = 1
    /\ levenshtein_match = None /\ result = None /\ fpc = "idle" /\ best = None

\* a call lev_distance(a, b) on any two strings within the bounds
Init ==
    /\ a \in StringsUpTo(LevChars, MaxLen)
    /\ b \in StringsUpTo(LevChars, MaxLen)
    /\ dcol = <<>> /\ t_last = 0 /\ i = 0 /\ j = 0 /\ current = 0 /\ ret = 0
    /\ pc = "entry"
    /\ FindIdle

Next == LevEntry \/ OuterStep \/ InnerStep \/ LevReturn

Spec == Init /\ [][Next]_vars

\* a call find_best_match_for_name(names.iter(), lookup, dist) with at most
\* maxNames candidates, the candidates and the lookup among strings, and dist
\* absent or at most maxDist
FindCall(strings, maxNames, maxDist) ==
    /\ names \in UNION {[1..n -> strings] : n \in 0..maxNames}
    /\ lookup \in strings
    /\ dist \in {None} \cup {Some(d) : d \in 0..maxDist}
    /\ max_dist = 0 /\ k = 1 /\ levenshtein_match = None /\ result = None
    /\ best = None
    /\ fpc = "entry"
    /\ LevIdle

\* names made of words and separators
InitFind == FindCall(StringsUpTo(WordChars, MaxNameLen), MaxNames, MaxDist)

NextFind == FindEntry \/ Tier1Step \/ Tier2Step \/ Tier3Step

SpecFind == InitFind /\ [][NextFind]_vars

\* names that differ in case
InitFindCase == FindCall(StringsUpTo(CaseChars, MaxNameLen), MaxNames, MaxDist)

SpecFindCase == InitFindCase /\ [][NextFind]_vars

\* both kinds of names, of up to WideNameLen characters
InitFindWide == FindCall(StringsUpTo(FindChars, WideNameLen), WideNames, WideDist)

SpecFindWide == InitFindWide /\ [][NextFind]_vars

\* lev_distance runs to completion when it is scheduled: the function is
\* synchronous, so a step that can be taken is taken
LiveSpec == Spec /\ WF_vars(Next)

-----------------------------------------------------------------------------
(* Reference definitions used by the properties *)

RECURSIVE Matrix(_, _, _, _)
\* the cell (m, n) of the full Levenshtein matrix of s and t
Matrix(s, t, m, n) ==
    IF m = 0 THEN n
    ELSE IF n = 0 THEN m
    ELSE Min(Min(Matrix(s, t, m - 1, n) + 1, Matrix(s, t, m, n - 1) + 1),
             Matrix(s, t, m - 1, n - 1) + (IF s[m] = t[n] THEN 0 ELSE 1))

Levenshtein(s, t) == Matrix(s, t, Len(s), Len(t))

\* the renamings of the alphabet that change at least one character; every
\* character of LevChars has a width of its own, so each changed character
\* changes width
Renamings ==
    {f \in [LevChars -> LevChars] :
        /\ \A c, e \in LevChars : f[c] = f[e] => c = e
        /\ \E c \in LevChars : Utf8Len(f[c]) # Utf8Len(c)}

Renamed(f, s) == [n \in 1..Len(s) |-> f[s[n]]]

Candidates == 1..Len(names)
CaseMatch(n) == to_uppercase(names[n]) = to_uppercase(lookup)
Distance(n) == lev_distance(lookup, names[n])
WordMatch(n) == sort_by_words(names[n]) = sort_by_words(lookup)

\* the threshold as the specification defines it: the one supplied, or a third
\* of the lookup's length in scalar values, at least 1
ScalarThreshold == IF dist = None THEN Max(CharsCount(lookup), 3) \div 3 ELSE dist[1]

\* the first candidate with the smallest distance among those within limit
FirstClosest(limit) ==
    CHOOSE n \in Candidates :
        /\ Distance(n) <= limit
        /\ \A m \in Candidates : Distance(m) <= limit => Distance(n) <= Distance(m)
        /\ \A m \in Candidates : m < n => Distance(m) # Distance(n)

FirstCaseMatch == CHOOSE n \in Candidates : CaseMatch(n) /\ \A m \in Candidates : m < n => ~CaseMatch(m)
FirstWordMatch == CHOOSE n \in Candidates : WordMatch(n) /\ \A m \in Candidates : m < n => ~WordMatch(m)

-----------------------------------------------------------------------------
(* Properties *)

\* C1: for every pair of strings a, b the value lev_distance returns is the
\* Levenshtein distance of a and b given by the full-matrix recurrence.
C1_EqualsReference == pc = "done" => ret = Levenshtein(a, b)

C1_Witness ==
    /\ pc = "done"
    /\ a = <<97, 228, 8364>>
    /\ b = <<228, 8364, 97>>
    /\ ret = 2

\* C2: without a supplied threshold the limit used is max(n, 3) / 3 where n is
\* the number of scalar values of lookup.
C2_DefaultThresholdInScalars ==
    (fpc # "entry" /\ dist = None) => max_dist = Max(CharsCount(lookup), 3) \div 3

\* C3: when no candidate matches case-insensitively and none is within the
\* threshold, the result is the FIRST candidate whose sorted-word form equals
\* that of lookup, and none when there is no such candidate.
C3_FirstSortedWordMatch ==
    (/\ fpc = "done"
     /\ \A n \in Candidates : ~CaseMatch(n) /\ Distance(n) > max_dist)
    => best = (IF \E n \in Candidates : WordMatch(n) THEN Some(names[FirstWordMatch]) ELSE None)

\* C4: when no candidate matches case-insensitively and some candidate is
\* within the threshold, the result is the first of the candidates with the
\* smallest distance, and tier 3 is not entered.  The threshold is taken both
\* as the limit the code computed and as the specification defines it.
C4_ClosestWithinThreshold ==
    \A limit \in {max_dist, ScalarThreshold} :
        /\ (/\ fpc = "done"
            /\ \A n \in Candidates : ~CaseMatch(n)
            /\ \E n \in Candidates : Distance(n) <= limit)
           => best = Some(names[FirstClosest(limit)])
        /\ fpc = "tier3" => \A n \in Candidates : Distance(n) > limit

C4_Witness ==
    /\ fpc = "done"
    /\ Len(names) = 2
    /\ names[1] # names[2]
    /\ ~CaseMatch(1) /\ ~CaseMatch(2)
    /\ Distance(1) = Distance(2)
    /\ Distance(1) > 0
    /\ Distance(1) <= ScalarThreshold
    /\ best = Some(names[1])

\* C5: whenever some candidate's uppercase form equals that of lookup, the
\* result is the first such candidate, whatever the threshold and the distances.
C5_FirstCaseInsensitiveMatch ==
    (fpc = "done" /\ \E n \in Candidates : CaseMatch(n))
    => best = Some(names[FirstCaseMatch])

C5_Witness ==
    /\ fpc = "done"
    /\ dist = Some(0)
    /\ Len(names) = 2
    /\ ~CaseMatch(1)
    /\ CaseMatch(2)
    /\ names[2] # lookup
    /\ Distance(2) > max_dist
    /\ best = Some(names[2])

\* C6: the value returned counts scalar values, not bytes: it is the edit
\* distance of the two scalar sequences, and it is the same for the strings
\* obtained by renaming characters to characters of other byte widths.
C6_ByteWidthAgnostic ==
    pc = "done" =>
        /\ ret = Levenshtein(a, b)
        /\ \A f \in Renamings : lev_distance(Renamed(f, a), Renamed(f, b)) = ret

C6_Witness ==
    /\ pc = "done"
    /\ a = <<228, 97>>
    /\ b = <<128512, 97>>
    /\ ByteLen(b) > CharsCount(b)
    /\ ret = 1

\* C7: lev_distance(a, b) = lev_distance(b, a).
C7_Symmetric == pc = "done" => ret = lev_distance(b, a)

C7_Witness ==
    /\ pc = "done"
    /\ Len(a) = 1 /\ Len(b) = 3
    /\ ByteLen(a) # ByteLen(b)
    /\ ret = 2
    /\ lev_distance(b, a) = 2

\* C8: lev_distance(s, s) = 0 for every string s.
C8_SelfDistanceZero == (pc = "done" /\ a = b) => ret = 0

C8_Witness ==
    /\ pc = "done"
    /\ a = <<128512, 228, 97>>
    /\ b = a
    /\ ret = 0

\* C9: with an empty argument the value returned is the number of scalar
\* values of the other one.
C9_EmptyArgument ==
    pc = "done" =>
        /\ a = <<>> => ret = Len(b)
        /\ b = <<>> => ret = Len(a)

C9_Witness ==
    /\ pc = "done"
    /\ a = <<>>
    /\ b = <<228, 8364>>
    /\ ret = 2

\* every index of the working row the next step uses is inside 0..=byte_len(b)
RowAccessesInBounds ==
    /\ pc # "panic"
    /\ pc \in {"outer", "inner", "return"} => DOMAIN dcol = 0..ByteLen(b)
    /\ pc = "outer" /\ i < Len(a) => 0 \in 0..ByteLen(b)
    /\ pc = "inner" /\ j < Len(b) => {j, j + 1} \subseteq 0..ByteLen(b)
    /\ pc = "return" => t_last + 1 \in 0..ByteLen(b)

\* C10: lev_distance has no failure mode: no access to the working row is out
\* of bounds, and every call returns.
C10_NoFailure == []RowAccessesInBounds /\ <>(pc = "done")

C10_Witness ==
    /\ pc = "return"
    /\ a # <<>>
    /\ b = <<8364, 128512, 228>>
    /\ t_last + 1 = 3
    /\ DOMAIN dcol = 0..9

=============================================================================
